---- MODULE Spec2Model ----
(***************************************************************************)
(* Model of svitlo_monitor.py: a polling loop that fetches the outage      *)
(* schedule of each configured queue, compares it with the cached one,     *)
(* sends a Telegram notification on a cancellation or a change and         *)
(* persists the fetched schedule.                                          *)
(***************************************************************************)
EXTENDS Integers, Sequences, FiniteSets, TLC

(***************************************************************************)
(* Bounds of the model.                                                    *)
(***************************************************************************)
\* The wall clock shows the calendar days 1..MaxDate (days of January 2025).
MaxDate == 2

(***************************************************************************)
(* Program constants.                                                      *)
(***************************************************************************)
\* range(3): fetch attempts of one check_and_alert pass.
MaxAttempts == 3

(***************************************************************************)
(* JSON values.  Every value is a record [t, v] so that values of          *)
(* different JSON types can be compared.  Python's None is JNull.          *)
(***************************************************************************)
JNull == [t |-> "null", v |-> <<>>]

JList(s) == [t |-> "list", v |-> s]

\* A non-empty JSON object, such as an upstream error document.
JDict == [t |-> "dict", v |-> <<>>]

\* What a raised exception leaves in place of a value.
Raised == [t |-> "raise", v |-> <<>>]

\* Python truthiness of a JSON value (`not current`, `x or []`).
Truthy(j) == (j.t = "list" /\ j.v # <<>>) \/ j.t = "dict"

(***************************************************************************)
(* Dates.  eventDate strings and datetime.strptime(d, "%d.%m.%Y").         *)
(***************************************************************************)
D1 == "01.01.2025"

D2 == "02.01.2025"

\* strptime accepts a day without the leading zero: the same date as D1.
D1u == "1.01.2025"

BadDate == "soon"

\* day.get("eventDate") of a day without the key.
NoDate == "None"

Parseable(s) == s \in {D1, D1u, D2}

\* The date strptime returns for a parseable string (the day of the month).
StrpTime(s) == CASE s = D1 -> 1 [] s = D1u -> 1 [] s = D2 -> 2 [] OTHER -> 0

\* `if d` on an eventDate: None and "" are falsy.
TruthyDate(s) == s # NoDate /\ s # ""

(***************************************************************************)
(* Configuration: MONITOR_CONFIG and the URLS dict built from it.          *)
(***************************************************************************)
Queues == {"4.2", "5.1"}

\* A config record with the keys `has`; `id` is its queue id.
Item(id, has) == [id |-> id, has |-> has]

FullItem(id) == Item(id, {"id", "name", "url"})

\* A value of the environment variable: unset, text that is not JSON, or a
\* JSON list of records.
Configs ==
    { [given |-> FALSE, parses |-> FALSE, items |-> <<>>],
      [given |-> TRUE, parses |-> FALSE, items |-> <<>>],
      [given |-> TRUE, parses |-> TRUE, items |-> <<>>],
      [given |-> TRUE, parses |-> TRUE, items |-> <<FullItem("4.2")>>],
      [given |-> TRUE, parses |-> TRUE, items |-> <<FullItem("4.2"), FullItem("5.1")>>],
      [given |-> TRUE, parses |-> TRUE, items |-> <<Item("4.2", {"id", "name"})>>],
      [given |-> TRUE, parses |-> TRUE, items |-> <<Item("4.2", {"id", "url"})>>] }

\* _config_data: the parsed list, [] when the variable is unset or malformed.
ConfigData(cfg) == IF cfg.given /\ cfg.parses THEN cfg.items ELSE <<>>

\* item['id'], item['url'], item['name'] raise KeyError on a record without the key.
ConfigRaises(cfg) ==
    \E i \in 1..Len(ConfigData(cfg)) :
        ~({"id", "name", "url"} \subseteq ConfigData(cfg)[i].has)

\* list(URLS.keys()): the configured queue ids in insertion order.
UrlKeys(cfg) == [i \in 1..Len(ConfigData(cfg)) |-> ConfigData(cfg)[i].id]

(***************************************************************************)
(* Upstream schedules.                                                     *)
(***************************************************************************)
\* An outage interval as upstream sends it: the four compared fields and one more.
RawInterval == [shutdownHours |-> "10:00-14:00", from |-> "10:00", to |-> "14:00",
                status |-> 1, note |-> "planned"]

NoQueues == [k \in {} |-> <<>>]

\* A day entry with an outage for queue q, and one where q has no key.
Day(e, q) == [eventDate |-> e, queues |-> [k \in {q} |-> <<RawInterval>>]]

DayOff(e) == [eventDate |-> e, queues |-> NoQueues]

\* The raw schedules (lists of day entries) upstream may serve for queue q.
Schedules(q) ==
    { <<>>,
      <<Day(D1, q)>>,
      <<DayOff(D1)>>,
      <<Day(D2, q)>>,
      <<Day(D1, q), Day(D2, q)>>,
      <<Day(BadDate, q), Day(D2, q)>>,
      <<Day(D2, q), Day(BadDate, q)>>,
      <<Day(D1u, q)>>,
      <<Day(NoDate, q), Day(D1, q)>> }

\* The JSON documents a response body may parse to.
Bodies(q) == {JList(s) : s \in Schedules(q)} \cup {JNull, JDict}

(***************************************************************************)
(* HTTP responses of requests.get.                                         *)
(***************************************************************************)
\* Content-Type header values, as the list of their ";"-separated parts;
\* <<>> is a response without the header (headers.get default "").
ContentTypes == { <<"application/json">>, <<"application/json", "charset=utf-8">>,
                  <<"text/html", "charset=utf-8">>, <<>> }

Statuses == {200, 403, 503, 500}

TransportError == [kind |-> "error", status |-> 0, ctype |-> <<>>,
                   parses |-> FALSE, json |-> JNull]

Responses(q) ==
    {TransportError}
    \cup { [kind |-> "http", status |-> s, ctype |-> c, parses |-> FALSE, json |-> JNull] :
             s \in Statuses, c \in ContentTypes }
    \cup { [kind |-> "http", status |-> s, ctype |-> c, parses |-> TRUE, json |-> b] :
             s \in Statuses, c \in ContentTypes, b \in Bodies(q) }

\* "application/json" in content_type
IsJsonContentType(c) == \E i \in 1..Len(c) : c[i] = "application/json"

\* r.json() was reached and returned: the request succeeded, the status is
\* not a block, the content type is JSON and the body parsed.
ParsedBody(r) ==
    /\ r.kind = "http"
    /\ r.status \notin {403, 503}
    /\ IsJsonContentType(r.ctype)
    /\ r.parses

\* A mutant of fetch_schedule that forgets the 503 block.
fetch_schedule_no503(r) ==
    IF r.kind = "error" THEN JNull
    ELSE IF r.status = 403 THEN JNull
    ELSE IF ~IsJsonContentType(r.ctype) THEN JNull
    ELSE IF ~r.parses THEN JNull
    ELSE r.json

\* fetch_schedule(url) on the response r of the GET: the parsed body, or None.
fetch_schedule(r) ==
    IF r.kind = "error" THEN JNull
    ELSE IF r.status \in {403, 503} THEN JNull
    ELSE IF ~IsJsonContentType(r.ctype) THEN JNull
    ELSE IF ~r.parses THEN JNull
    ELSE r.json

(***************************************************************************)
(* The cache: one file per queue.                                          *)
(***************************************************************************)
Absent == [t |-> "absent", v |-> <<>>]

\* A file that json.load cannot parse (left by a write that failed midway).
Corrupt == [t |-> "corrupt", v |-> <<>>]

\* A mutant of CachePath: one file for all queues.
CachePathShared(q) == "4.2"

\* f"{CACHE_DIR}/{queue}.json": the file of queue q, named by its id.
CachePath(q) == q

\* load_last(queue) on the file f: None when there is no file; raises on a
\* file that does not parse.
load_last(f) ==
    IF f = Absent THEN JNull
    ELSE IF f = Corrupt THEN Raised
    ELSE f

\* `x or []`
OrEmptyList(j) == IF Truthy(j) THEN j ELSE JList(<<>>)

(***************************************************************************)
(* extract_relevant                                                        *)
(***************************************************************************)
EmptyDict == [k \in {} |-> <<>>]

\* result[key] = value on a Python dict.
DictSet(d, key, value) ==
    [k \in DOMAIN d \cup {key} |-> IF k = key THEN value ELSE d[k]]

\* day.get("queues", {}).get(queue, [])
QueueData(day, queue) ==
    IF queue \in DOMAIN day.queues THEN day.queues[queue] ELSE <<>>

Simplify(x) == [shutdownHours |-> x.shutdownHours, from |-> x.from,
                to |-> x.to, status |-> x.status]

Simplified(qdata) == [i \in 1..Len(qdata) |-> Simplify(qdata[i])]

\* A mutant of the loop body that keeps past days.
RECURSIVE ExtractLoopKeepPast(_, _, _, _, _)
ExtractLoopKeepPast(days, queue, today, i, result) ==
    IF i > Len(days) THEN result
    ELSE LET day == days[i]
             date_str == day.eventDate
         IN IF ~Parseable(date_str)
            THEN ExtractLoopKeepPast(days, queue, today, i + 1, result)
            ELSE ExtractLoopKeepPast(days, queue, today, i + 1,
                     DictSet(result, date_str, Simplified(QueueData(day, queue))))

\* The loop of extract_relevant over the days from index i on.
RECURSIVE ExtractLoop(_, _, _, _, _)
ExtractLoop(days, queue, today, i, result) ==
    IF i > Len(days) THEN result
    ELSE LET day == days[i]
             date_str == day.eventDate
         IN IF ~Parseable(date_str)
            THEN ExtractLoop(days, queue, today, i + 1, result)
            ELSE IF StrpTime(date_str) < today
            THEN ExtractLoop(days, queue, today, i + 1, result)
            ELSE ExtractLoop(days, queue, today, i + 1,
                     DictSet(result, date_str, Simplified(QueueData(day, queue))))

\* extract_relevant(schedule, queue) with datetime.now().date() = today.
\* Iterating a JSON object yields its keys, and str has no get: it raises.
extract_relevant(schedule, queue, today) ==
    IF ~Truthy(schedule) THEN [raised |-> FALSE, dict |-> EmptyDict]
    ELSE IF schedule.t = "dict" THEN [raised |-> TRUE, dict |-> EmptyDict]
    ELSE [raised |-> FALSE, dict |-> ExtractLoop(schedule.v, queue, today, 1, EmptyDict)]

(***************************************************************************)
(* State.                                                                  *)
(***************************************************************************)
VARIABLES
    config,            \* MONITOR_CONFIG
    urls,              \* list(URLS.keys())
    clock,             \* datetime.now().date()
    cache,             \* the cache file of each queue
    pc,                \* position of the process
    qi,                \* index in urls of the queue of the for loop
    attempt,           \* `attempt` of the retry loop
    current,           \* check_and_alert locals
    last,
    current_relevant,
    last_relevant,
    outcome,           \* the branch check_and_alert took
    before,            \* the queue's cache file when the pass began
    log,               \* what the pass did so far, in order
    reads,             \* the dates datetime.now() gave the pass, in order
    parsed,            \* history: the latest fetch attempt got a body that parsed
    started,           \* history: the queues whose pass began in this cycle
    done,              \* history: the queues whose pass returned in this cycle
    everOk,            \* history: the queues that had a successful fetch
    response,          \* the response given to a stand-alone fetch_schedule call
    fetched,           \* and what that call returned
    normargs,          \* the arguments of a stand-alone extract_relevant call
    normalized,        \* and what that call returned
    prev               \* history: the latest finished pass of each queue

passvars == <<attempt, current, last, current_relevant, last_relevant, outcome, before,
              log, reads, parsed>>

cyclevars == <<started, done>>

fetchvars == <<response, fetched>>

normvars == <<normargs, normalized>>

vars == <<config, urls, clock, cache, pc, qi, passvars, cyclevars, everOk, fetchvars,
         normvars, prev>>

NoResponse == [kind |-> "none", status |-> 0, ctype |-> <<>>, parses |-> FALSE, json |-> JNull]

\* No pass of the queue has finished, or none was recorded.
NoPass == [fetched |-> JNull, dates |-> {}, outcome |-> "none", failed |-> FALSE]

\* No extract_relevant call has been made.
NoArgs == [schedule |-> JNull, queue |-> "", today |-> 0]

\* The locals of check_and_alert before the function runs.
FreshPass ==
    /\ attempt = 0
    /\ current = JNull
    /\ last = JNull
    /\ current_relevant = EmptyDict
    /\ last_relevant = EmptyDict
    /\ outcome = "none"
    /\ before = Absent
    /\ log = <<>>
    /\ reads = <<>>
    /\ parsed = FALSE

\* Module import: the configuration is read; a KeyError ends the process.
Init ==
    /\ config \in Configs
    /\ urls = IF ConfigRaises(config) THEN <<>> ELSE UrlKeys(config)
    /\ pc = IF ConfigRaises(config) THEN "crashed" ELSE "startup"
    /\ clock = 1
    /\ cache = [q \in Queues |-> Absent]
    /\ qi = 1
    /\ FreshPass
    /\ started = <<>>
    /\ done = <<>>
    /\ everOk = {}
    /\ response = NoResponse
    /\ fetched = JNull
    /\ normargs = NoArgs
    /\ prev = [q \in Queues |-> NoPass]
    /\ normalized = [raised |-> FALSE, dict |-> EmptyDict]

queue == urls[qi]

InPass == pc \in {"fetch", "retry_sleep", "load", "extract_last", "filter", "decide",
                  "send", "save", "returned"}

(***************************************************************************)
(* check_and_alert: helpers of the classification.                         *)
(***************************************************************************)
\* The dict comprehension that drops the keys before today.
FilterPast(d, today) ==
    [k \in {x \in DOMAIN d : StrpTime(x) >= today} |-> d[k]]

\* A mutant of LastOnlyPast that takes today for a past date.
RECURSIVE LastOnlyPastInclusive(_, _, _)
LastOnlyPastInclusive(days, today, i) ==
    IF i > Len(days) THEN "true"
    ELSE LET d == days[i].eventDate
         IN IF ~TruthyDate(d) THEN LastOnlyPastInclusive(days, today, i + 1)
            ELSE IF ~Parseable(d) THEN "raise"
            ELSE IF StrpTime(d) <= today THEN LastOnlyPastInclusive(days, today, i + 1)
            ELSE "false"

\* all(strptime(d) < today for d in last_dates if d) from index i on:
\* "true", "false", or "raise" when strptime rejects a date that is reached.
RECURSIVE LastOnlyPast(_, _, _)
LastOnlyPast(days, today, i) ==
    IF i > Len(days) THEN "true"
    ELSE LET d == days[i].eventDate
         IN IF ~TruthyDate(d) THEN LastOnlyPast(days, today, i + 1)
            ELSE IF ~Parseable(d) THEN "raise"
            ELSE IF StrpTime(d) < today THEN LastOnlyPast(days, today, i + 1)
            ELSE "false"

\* A mutant of Classify that takes every empty schedule for a cancellation.
ClassifyNoRollover(cur, last_only_past, cur_rel, last_rel) ==
    IF ~Truthy(cur) THEN "cancelled"
    ELSE IF cur_rel # last_rel THEN "changed"
    ELSE "unchanged"

\* A mutant of Classify that compares the raw schedules' emptiness only.
ClassifyNoCompare(cur, last_only_past, cur_rel, last_rel) ==
    IF ~Truthy(cur) /\ last_only_past THEN "ignored"
    ELSE IF ~Truthy(cur) /\ ~last_only_past THEN "cancelled"
    ELSE "changed"

\* The if-chain of check_and_alert.
Classify(cur, last_only_past, cur_rel, last_rel) ==
    IF ~Truthy(cur) /\ last_only_past THEN "ignored"
    ELSE IF ~Truthy(cur) /\ ~last_only_past THEN "cancelled"
    ELSE IF cur_rel # last_rel THEN "changed"
    ELSE "unchanged"

\* A mutant of AfterLoop without the check.
AfterLoopNoCheck(cur) == "load"

\* A mutant of MoreAttempts that allows one attempt more.
MoreAttemptsOffByOne(a) == a + 1 <= MaxAttempts

\* The retry loop goes on: `for attempt in range(3)` has a next value after a.
MoreAttempts(a) == a + 1 < MaxAttempts

\* After the retry loop: `if current is None: return`.
AfterLoop(cur) == IF cur = JNull THEN "returned" ELSE "load"

\* A mutant of NextIndex that skips a key.
NextIndexSkip(i) == i + 2

\* The for loop takes the next key of URLS.
NextIndex(i) == i + 1

\* A mutant of AfterDecide that persists the snapshot on every outcome.
AfterDecideAlwaysSave(o) ==
    CASE o \in {"ignored", "unchanged"} -> "save"
      [] OTHER -> "send"

\* A mutant of AfterDecide where the else branch sends a message as well.
AfterDecideNotifyAll(o) ==
    CASE o = "ignored" -> "save"
      [] OTHER -> "send"

\* What each branch of the if-chain does next: the first saves, the next two
\* send a message and then save, the else branch only prints.
AfterDecide(o) ==
    CASE o = "ignored" -> "save"
      [] o = "unchanged" -> "returned"
      [] OTHER -> "send"

\* A mutant of AfterSend: the message is sent and the snapshot is not saved.
AfterSendNoSave == "returned"

\* After send_telegram(message) comes save_current(queue, current).
AfterSend == "save"

\* A mutant of SaveArg: the loaded snapshot is saved again.
SaveArgLast(cur, lst) == lst

\* The data argument of every save_current call is `current`.
SaveArg(cur, lst) == cur

\* A mutant of AfterException: the exception leaves check_and_alert and main.
AfterExceptionUncaught == "crashed"

\* Where the except clause of check_and_alert leaves the process.
AfterException == "returned"

\* The outcomes of save_current: written; failed before the file was opened;
\* failed after open(path, "w") truncated it.
SaveResults == {"ok", "failed", "truncated"}

(***************************************************************************)
(* The main loop and check_and_alert, one action per step.                 *)
(***************************************************************************)
\* time.sleep(3) and the start message.
Startup ==
    /\ pc = "startup"
    /\ pc' = "loop"
    /\ UNCHANGED <<config, urls, clock, cache, qi, passvars, cyclevars, everOk, fetchvars,
                   normvars, prev>>

\* The for loop calls check_and_alert(queue, url).
BeginPass ==
    /\ pc = "loop"
    /\ qi <= Len(urls)
    /\ pc' = "fetch"
    /\ before' = cache[queue]
    /\ started' = Append(started, queue)
    /\ UNCHANGED <<config, urls, clock, cache, qi, attempt, current, last,
                   current_relevant, last_relevant, outcome, log, reads, parsed, done,
                   everOk, fetchvars, normvars, prev>>

\* One fetch attempt of the retry loop.
Fetch ==
    /\ pc = "fetch"
    /\ \E r \in Responses(queue) :
          /\ current' = fetch_schedule(r)
          /\ pc' = IF fetch_schedule(r) # JNull THEN AfterLoop(fetch_schedule(r))
                   ELSE "retry_sleep"
          /\ everOk' = IF fetch_schedule(r) # JNull THEN everOk \cup {queue} ELSE everOk
          /\ parsed' = ParsedBody(r)
    /\ log' = Append(log, "fetch")
    /\ UNCHANGED <<config, urls, clock, cache, qi, attempt, last, current_relevant,
                   last_relevant, outcome, before, reads, cyclevars, fetchvars, normvars, prev>>

\* time.sleep(2) after a failed attempt, then the next attempt or giving up.
RetrySleep ==
    /\ pc = "retry_sleep"
    /\ attempt' = attempt + 1
    /\ log' = Append(log, "delay")
    /\ IF MoreAttempts(attempt)
       THEN pc' = "fetch" /\ UNCHANGED outcome
       ELSE /\ pc' = AfterLoop(current)
            /\ outcome' = IF AfterLoop(current) = "returned" THEN "skipped" ELSE outcome
    /\ UNCHANGED <<config, urls, clock, cache, qi, current, last, current_relevant,
                   last_relevant, before, reads, parsed, cyclevars, everOk, fetchvars,
                   normvars, prev>>

\* The except clause: the error is printed and the function returns.
Except ==
    /\ pc' = AfterException
    /\ log' = Append(log, "except")

\* last = load_last(queue) or []; current_relevant = extract_relevant(current, queue)
LoadAndExtract ==
    /\ pc = "load"
    /\ LET loaded == load_last(cache[CachePath(queue)])
           cur == extract_relevant(current, queue, clock)
       IN IF loaded = Raised
          THEN Except /\ UNCHANGED <<last, current_relevant, reads>>
          ELSE /\ last' = OrEmptyList(loaded)
               /\ reads' = Append(reads, clock)
               /\ IF cur.raised
                  THEN Except /\ UNCHANGED current_relevant
                  ELSE /\ current_relevant' = cur.dict
                       /\ pc' = "extract_last"
                       /\ log' = Append(log, "load")
    /\ UNCHANGED <<config, urls, clock, cache, qi, attempt, current, last_relevant,
                   outcome, before, parsed, cyclevars, everOk, fetchvars, normvars, prev>>

\* last_relevant = extract_relevant(last, queue)
ExtractLast ==
    /\ pc = "extract_last"
    /\ LET r == extract_relevant(last, queue, clock)
       IN IF r.raised
          THEN Except /\ UNCHANGED last_relevant
          ELSE last_relevant' = r.dict /\ pc' = "filter" /\ UNCHANGED log
    /\ reads' = Append(reads, clock)
    /\ UNCHANGED <<config, urls, clock, cache, qi, attempt, current, last,
                   current_relevant, outcome, before, parsed, cyclevars, everOk, fetchvars,
                   normvars, prev>>

\* The comprehension that removes past days from last_relevant.
FilterLast ==
    /\ pc = "filter"
    /\ last_relevant' = FilterPast(last_relevant, clock)
    /\ pc' = "decide"
    /\ reads' = Append(reads, clock)
    /\ UNCHANGED <<config, urls, clock, cache, qi, attempt, current, last,
                   current_relevant, outcome, before, log, parsed, cyclevars, everOk,
                   fetchvars, normvars, prev>>

\* last_only_past and the if-chain.
Decide ==
    /\ pc = "decide"
    /\ LET lop == LastOnlyPast(last.v, clock, 1)
           o == Classify(current, lop = "true", current_relevant, last_relevant)
       IN IF lop = "raise"
          THEN Except /\ UNCHANGED outcome
          ELSE /\ outcome' = o
               /\ pc' = AfterDecide(o)
               /\ UNCHANGED log
    /\ reads' = Append(reads, clock)
    /\ UNCHANGED <<config, urls, clock, cache, qi, attempt, current, last,
                   current_relevant, last_relevant, before, parsed, cyclevars, everOk,
                   fetchvars, normvars, prev>>

\* send_telegram(message): never raises, whether or not the message is delivered.
Send ==
    /\ pc = "send"
    /\ log' = Append(log, IF outcome = "cancelled" THEN "send_cancelled" ELSE "send_changed")
    /\ pc' = AfterSend
    /\ UNCHANGED <<config, urls, clock, cache, qi, attempt, current, last,
                   current_relevant, last_relevant, outcome, before, reads, parsed,
                   cyclevars, everOk, fetchvars, normvars, prev>>

\* save_current(queue, current)
Save ==
    /\ pc = "save"
    /\ \E res \in SaveResults :
          IF res = "ok"
          THEN /\ cache' = [cache EXCEPT ![CachePath(queue)] = SaveArg(current, last)]
               /\ log' = Append(log, "save")
               /\ pc' = "returned"
          ELSE /\ cache' = IF res = "truncated"
                           THEN [cache EXCEPT ![CachePath(queue)] = Corrupt]
                           ELSE cache
               /\ pc' = AfterException
               /\ log' = log \o <<"save_failed", "except">>
    /\ UNCHANGED <<config, urls, clock, qi, attempt, current, last, current_relevant,
                   last_relevant, outcome, before, reads, parsed, cyclevars, everOk,
                   fetchvars, normvars, prev>>

\* check_and_alert has returned: time.sleep(5), and the loop moves on.
Return ==
    /\ pc = "returned"
    /\ pc' = "loop"
    /\ qi' = NextIndex(qi)
    /\ done' = Append(done, queue)
    /\ attempt' = 0
    /\ current' = JNull
    /\ last' = JNull
    /\ current_relevant' = EmptyDict
    /\ last_relevant' = EmptyDict
    /\ outcome' = "none"
    /\ before' = Absent
    /\ log' = <<>>
    /\ reads' = <<>>
    /\ parsed' = FALSE
    /\ UNCHANGED <<config, urls, clock, cache, started, everOk, fetchvars, normvars>>

QueueSleep == Return /\ UNCHANGED prev

\* The same step, keeping a record of the pass that has returned.
QueueSleepRecord ==
    /\ Return
    /\ prev' = [prev EXCEPT ![queue] =
                  [fetched |-> current,
                   dates |-> {reads[i] : i \in 1..Len(reads)},
                   outcome |-> outcome,
                   failed |-> \E i \in 1..Len(log) : log[i] = "save_failed"]]

\* The for loop is exhausted: time.sleep(CHECK_INTERVAL), and the next cycle.
CycleSleep ==
    /\ pc = "loop"
    /\ qi > Len(urls)
    /\ qi' = 1
    /\ started' = <<>>
    /\ done' = <<>>
    /\ UNCHANGED <<config, urls, clock, cache, pc, passvars, everOk, fetchvars, normvars, prev>>

\* Midnight: the wall clock moves to the next day.
Tick ==
    /\ pc # "crashed"
    /\ clock < MaxDate
    /\ clock' = clock + 1
    /\ UNCHANGED <<config, urls, cache, pc, qi, passvars, cyclevars, everOk, fetchvars,
                   normvars, prev>>

Next ==
    \/ Startup
    \/ BeginPass
    \/ Fetch
    \/ RetrySleep
    \/ LoadAndExtract
    \/ ExtractLast
    \/ FilterLast
    \/ Decide
    \/ Send
    \/ Save
    \/ QueueSleep
    \/ CycleSleep
    \/ Tick

Spec == Init /\ [][Next]_vars

(***************************************************************************)
(* fetch_schedule on its own: any response of any queue's URL.             *)
(***************************************************************************)
FetchCall ==
    /\ \E q \in Queues : \E r \in Responses(q) :
          /\ response' = r
          /\ fetched' = fetch_schedule(r)
    /\ UNCHANGED <<config, urls, clock, cache, pc, qi, passvars, cyclevars, everOk, normvars, prev>>

SpecFetch == Init /\ [][FetchCall]_vars

(***************************************************************************)
(* extract_relevant on its own: any schedule, any queue, any date.         *)
(***************************************************************************)
\* Schedules with two days of one eventDate, and with two spellings of one date.
RepeatedDays(q) ==
    { <<DayOff(D1), Day(D1, q)>>,
      <<Day(D2, q), DayOff(D2)>>,
      <<Day(D1, q), Day(D1u, q)>>,
      <<Day(D1, q), Day(BadDate, q), Day(D2, q), DayOff(D1)>> }

\* The values of the `schedule` parameter: None, and lists of days that name
\* the queue asked for or another one.
ScheduleArgs ==
    {JNull} \cup {JList(s) : s \in UNION {Schedules(q) \cup RepeatedDays(q) : q \in Queues}}

NormalizeCall ==
    /\ \E s \in ScheduleArgs, q \in Queues, d \in 1..MaxDate :
          /\ normargs' = [schedule |-> s, queue |-> q, today |-> d]
          /\ normalized' = extract_relevant(s, q, d)
    /\ UNCHANGED <<config, urls, clock, cache, pc, qi, passvars, cyclevars, everOk, fetchvars,
                   prev>>

SpecNormalize == Init /\ [][NormalizeCall]_vars

(***************************************************************************)
(* Fairness: the process is a single thread that always takes its next     *)
(* step (every sleep and every HTTP call with a timeout returns).  The     *)
(* wall clock is not required to advance.                                  *)
(***************************************************************************)
Step ==
    \/ Startup
    \/ BeginPass
    \/ Fetch
    \/ RetrySleep
    \/ LoadAndExtract
    \/ ExtractLast
    \/ FilterLast
    \/ Decide
    \/ Send
    \/ Save
    \/ QueueSleep
    \/ CycleSleep

FairSpec == Spec /\ WF_vars(Step)

(***************************************************************************)
(* The passes of a single configured queue, each recorded when it returns, *)
(* so that a pass can be compared with the one before it.                  *)
(***************************************************************************)
InitRecord == Init /\ Len(urls) <= 1

NextRecord ==
    \/ Startup
    \/ BeginPass
    \/ Fetch
    \/ RetrySleep
    \/ LoadAndExtract
    \/ ExtractLast
    \/ FilterLast
    \/ Decide
    \/ Send
    \/ Save
    \/ QueueSleepRecord
    \/ CycleSleep
    \/ Tick

SpecRecord == InitRecord /\ [][NextRecord]_vars

(***************************************************************************)
(* Vocabulary of the properties.                                           *)
(***************************************************************************)
\* The events of the pass so far that are notifications.
Sends == {i \in 1..Len(log) : log[i] \in {"send_cancelled", "send_changed"}}

FetchEvents == {i \in 1..Len(log) : log[i] = "fetch"}

\* The pass touched the cache: read it, or tried to write it.
TouchedCache == \E i \in 1..Len(log) : log[i] \in {"load", "save", "save_failed"}

\* check_and_alert has returned and the loop has not yet moved on.
PassEnded == pc = "returned"

\* Every attempt of the pass returned None.
AllAttemptsFailed == InPass /\ current = JNull /\ attempt = MaxAttempts

(***************************************************************************)
(* C1: when all fetch attempts of a pass return None, the pass ends with   *)
(* no notification sent and with the queue's cache entry neither read nor  *)
(* written.  While no attempt has succeeded the pass only fetches and      *)
(* sleeps.                                                                 *)
(***************************************************************************)
C1_SkipLeavesCache ==
    /\ AllAttemptsFailed =>
          /\ PassEnded
          /\ outcome = "skipped"
          /\ Sends = {}
          /\ ~TouchedCache
          /\ cache[queue] = before
    /\ (InPass /\ current = JNull) =>
          /\ \A i \in 1..Len(log) : log[i] \in {"fetch", "delay"}
          /\ cache[queue] = before

C1_Witness ==
    /\ AllAttemptsFailed
    /\ PassEnded
    /\ before \notin {Absent, Corrupt}
    /\ Truthy(before)
    /\ Cardinality(FetchEvents) = MaxAttempts

(***************************************************************************)
(* C9: a pass makes at least 1 and at most 3 fetch attempts, makes no      *)
(* fetch after the first attempt that succeeds, separates consecutive      *)
(* attempts by exactly one delay, and always terminates.                   *)
(***************************************************************************)
\* The attempts of the pass so far, as its log shows them.
C9_AttemptsInv ==
    /\ Cardinality(FetchEvents) <= MaxAttempts
    /\ (InPass /\ ~(pc = "fetch" /\ log = <<>>)) => Cardinality(FetchEvents) >= 1
    /\ \A i \in FetchEvents :
          i > 1 => /\ log[i - 1] = "delay"
                   /\ i > 2
                   /\ log[i - 2] = "fetch"
    /\ current # JNull => pc \notin {"fetch", "retry_sleep"}

\* C9: the attempts are bounded and separated by delays, no fetch follows a
\* success, and the process is outside a pass again and again (every pass
\* terminates).
C9_RetryBound ==
    /\ []C9_AttemptsInv
    /\ [][current # JNull /\ InPass => (FetchEvents' = FetchEvents \/ log' = <<>>)]_vars
    /\ []<>(~InPass)

C9_Witness ==
    /\ PassEnded
    /\ current # JNull
    /\ Cardinality(FetchEvents) = MaxAttempts
    /\ outcome = "changed"

(***************************************************************************)
(* C10: fetch_schedule returns None, and does not raise, for every         *)
(* response with status 403 or 503 or with a content type that is not      *)
(* JSON, whatever the body, and for a transport error or a body that does  *)
(* not parse.                                                              *)
(***************************************************************************)
C10_Unavailable ==
    (response.kind # "none"
       /\ \/ response.kind = "error"
          \/ response.status \in {403, 503}
          \/ "application/json" \notin {response.ctype[i] : i \in 1..Len(response.ctype)}
          \/ ~response.parses)
    => fetched = JNull

C10_Witness ==
    /\ response.kind = "http"
    /\ response.status = 503
    /\ response.ctype = <<"application/json">>
    /\ response.parses
    /\ Truthy(response.json)
    /\ fetched = JNull

(***************************************************************************)
(* Vocabulary of the classification properties.                            *)
(***************************************************************************)
Events == {log[i] : i \in 1..Len(log)}

\* The pass had a successful fetch.
FetchedOk == InPass /\ current # JNull

\* The dates datetime.now() gave the pass.
AsOfDates == {reads[i] : i \in 1..Len(reads)}

\* The cached snapshot the pass began with, as a list of days (an absent
\* record is an empty list).
BeforeDays == IF before.t = "list" THEN before.v ELSE <<>>

\* The eventDates of a list of days (days without one have none).
EventDates(days) == {days[i].eventDate : i \in {j \in 1..Len(days) : TruthyDate(days[j].eventDate)}}

\* Every eventDate of the days is a date strictly before d.
AllStrictlyBefore(days, d) ==
    \A e \in EventDates(days) : Parseable(e) /\ StrpTime(e) < d

\* Some eventDate of the days is the date d or a later one.
SomeTodayOrFuture(days, d) ==
    \E e \in EventDates(days) : Parseable(e) /\ StrpTime(e) >= d

\* The pass wrote the fetched schedule, or tried to: after a write that
\* failed the entry is as it was, or unreadable.
WroteCurrent ==
    \/ "save" \in Events /\ cache[queue] = current
    \/ "save_failed" \in Events /\ cache[queue] \in {before, Corrupt}

\* The pass reached the if-chain: nothing raised while loading, normalizing
\* and computing last_only_past.
Classified == outcome \in {"ignored", "cancelled", "changed", "unchanged"}

(***************************************************************************)
(* C2 (as stated): when the fetch succeeds with an empty schedule and      *)
(* every eventDate of the cached snapshot is strictly before the as-of     *)
(* date (or the cache is absent or empty), no notification is sent and the *)
(* cache entry is overwritten with the empty snapshot.                     *)
(***************************************************************************)
RolloverCase ==
    /\ PassEnded
    /\ FetchedOk
    /\ ~Truthy(current)
    /\ before # Corrupt
    /\ \E d \in AsOfDates : AllStrictlyBefore(BeforeDays, d)

\* C2 as stated: in the rollover case nothing is sent and the cache entry is
\* the new empty snapshot.
C2_Original == RolloverCase => (Sends = {} /\ cache[queue] = current)

(***************************************************************************)
(* C2 (amended): in that case no notification is sent and the pass writes  *)
(* the empty snapshot over the cache entry; the entry is the empty         *)
(* snapshot afterwards unless that write fails, and then the error is      *)
(* caught and the entry is left as it was or unreadable.                   *)
(***************************************************************************)
\* C2 amended: in the rollover case nothing is sent, the outcome is Ignored
\* and the empty snapshot is written unless the write fails.
C2_Rollover ==
    RolloverCase => (Sends = {} /\ outcome = "ignored" /\ WroteCurrent)

C2_Witness ==
    /\ RolloverCase
    /\ Truthy(before)
    /\ "save" \in Events
    /\ cache[queue] = JList(<<>>)

(***************************************************************************)
(* C3 (as stated, for passes whose cache write does not fail): when the    *)
(* fetch succeeds with an empty schedule and the cached snapshot has an    *)
(* eventDate that is today or later, exactly one "schedule cancelled"      *)
(* notification is sent and the cache entry becomes the empty snapshot.    *)
(***************************************************************************)
CancellationCase ==
    /\ PassEnded
    /\ FetchedOk
    /\ ~Truthy(current)
    /\ before # Corrupt
    /\ AsOfDates # {}
    /\ \A d \in AsOfDates : SomeTodayOrFuture(BeforeDays, d)

\* C3: in the cancellation case exactly one "schedule cancelled" message is
\* sent and the cache entry becomes the empty snapshot.
C3_Cancellation ==
    (CancellationCase /\ "save_failed" \notin Events) =>
        /\ Cardinality(Sends) = 1
        /\ \A i \in Sends : log[i] = "send_cancelled"
        /\ cache[queue] = current

(***************************************************************************)
(* C4 (as stated, for passes that raise nothing and see one date): the     *)
(* outcome is Changed if and only if the normalized mappings differ.       *)
(***************************************************************************)
\* normalize(S, q, d) of the specification.
Normalize(schedule, q, d) == extract_relevant(schedule, q, d).dict

QuietPass ==
    /\ PassEnded
    /\ FetchedOk
    /\ "except" \notin Events
    /\ Cardinality(AsOfDates) = 1

\* C4 as stated: Changed if and only if the normalized mappings differ.
C4_Original ==
    QuietPass =>
        \A d \in AsOfDates :
            (outcome = "changed" /\ "send_changed" \in Events)
                <=> (Normalize(current, queue, d) # Normalize(last, queue, d))

(***************************************************************************)
(* C4 (amended): in a pass with a successful fetch a "schedule changed"    *)
(* notification is sent, and the fetched schedule then written to the      *)
(* cache, if and only if the pass reaches the comparison without an        *)
(* exception, the fetched schedule is not empty and the normalized current *)
(* mapping differs from the normalized cached mapping (with an empty       *)
(* fetched schedule differing mappings give Cancelled or Ignored); when    *)
(* the two normalized mappings are equal no notification of any kind is    *)
(* sent.  With one date throughout the pass the compared mappings are the  *)
(* normalizations as of that date.                                         *)
(***************************************************************************)
C4_ChangeDetection ==
    (PassEnded /\ FetchedOk) =>
        /\ "send_changed" \in Events
              <=> (Classified /\ Truthy(current) /\ current_relevant # last_relevant)
        /\ "send_changed" \in Events => (outcome = "changed" /\ WroteCurrent)
        /\ (Classified /\ current_relevant = last_relevant) => Sends = {}
        /\ Classified =>
              \A d \in AsOfDates :
                  Cardinality(AsOfDates) = 1 =>
                      /\ current_relevant = Normalize(current, queue, d)
                      /\ last_relevant = Normalize(last, queue, d)

C4_Witness ==
    /\ PassEnded
    /\ outcome = "changed"
    /\ "send_changed" \in Events
    /\ "save" \in Events
    /\ current_relevant # last_relevant
    /\ last_relevant # EmptyDict
    /\ cache[queue] = current

(***************************************************************************)
(* C5 (as stated, for passes that raise nothing): a queue's cache entry is *)
(* absent if no fetch for it ever succeeded, and every pass with a         *)
(* successful fetch, an Unchanged one too, leaves the fetched schedule in  *)
(* the entry.                                                              *)
(***************************************************************************)
C5_Original ==
    /\ \A q \in Queues : q \notin everOk => cache[q] = Absent
    /\ (PassEnded /\ FetchedOk /\ "except" \notin Events) => cache[queue] = current

(***************************************************************************)
(* C5 (amended): a queue's cache entry is absent if no fetch for it ever   *)
(* succeeded.  A pass whose fetch failed, an Unchanged pass and a pass     *)
(* that raises before the write leave the entry as it was; an Ignored,     *)
(* Cancelled or Changed pass writes the fetched schedule, and the entry is *)
(* that schedule afterwards unless the write fails.  So the entry is the   *)
(* schedule of the most recent pass that wrote it, which can be older than *)
(* the most recent successful fetch.                                       *)
(***************************************************************************)
C5_CacheInvariant ==
    /\ \A q \in Queues : q \notin everOk => cache[q] = Absent
    /\ (PassEnded /\ ~FetchedOk) => cache[queue] = before
    /\ (PassEnded /\ FetchedOk) =>
          IF outcome \in {"ignored", "cancelled", "changed"}
          THEN WroteCurrent
          ELSE cache[queue] = before /\ Events \cap {"save", "save_failed"} = {}

C5_Witness ==
    /\ PassEnded
    /\ FetchedOk
    /\ outcome = "unchanged"
    /\ before # current
    /\ cache[queue] = before

(***************************************************************************)
(* C6: an exception raised while one queue is processed (a classification  *)
(* error on malformed data, a cache save failure) is caught inside that    *)
(* queue's pass; the loop then processes every remaining queue of the      *)
(* cycle and goes on with later cycles.                                    *)
(***************************************************************************)
\* The pass raised, and check_and_alert has returned.
ErrorPass == PassEnded /\ "except" \in Events

\* A pass begins for the queue at index i, as the n-th pass of its cycle.
PassBegins(i, n) == pc = "fetch" /\ log = <<>> /\ qi = i /\ Len(started) = n

\* C6: the exception is caught in the pass; the next step of the loop is the
\* sleep that leads to the next key in the same cycle, and from the loop the
\* next step is that key's pass; every configured queue's pass begins again
\* and again.
C6_ErrorIsolation ==
    /\ [](pc = "crashed" => ConfigRaises(config))
    /\ []("except" \in Events => PassEnded)
    /\ [][(ErrorPass /\ pc' # pc) =>
             (pc' = "loop" /\ qi' = qi + 1 /\ started' = started /\ cache' = cache)]_vars
    /\ [][(pc = "loop" /\ qi <= Len(urls) /\ pc' # pc) =>
             (pc' = "fetch" /\ qi' = qi /\ started' = Append(started, urls[qi]))]_vars
    /\ \A i \in 1..Cardinality(Queues) :
          []<>(i <= Len(urls) => PassBegins(i, i))

C6_Witness ==
    /\ ErrorPass
    /\ qi = 1
    /\ Len(urls) = Cardinality(Queues)
    /\ "save_failed" \in Events
    /\ cache[urls[Len(urls)]] = Corrupt

(***************************************************************************)
(* C7 (as stated): when load_last fails for a queue, the pass goes on with *)
(* an empty last schedule and reaches one of the four outcomes, so a       *)
(* fetched schedule with a day that is today or later gives a "schedule    *)
(* changed" notification and a cache write.                                *)
(***************************************************************************)
C7_ReadFailureAsAbsent ==
    (PassEnded /\ FetchedOk /\ before = Corrupt) =>
        /\ Classified
        /\ (current.t = "list" /\ \A d \in AsOfDates : SomeTodayOrFuture(current.v, d))
              => ("send_changed" \in Events /\ WroteCurrent)

(***************************************************************************)
(* C8: in every cycle each configured queue is processed exactly once, in  *)
(* the order of the configuration, one pass returning before the next      *)
(* begins; the loop has no exit, so every configured queue's pass begins   *)
(* again and again.                                                        *)
(***************************************************************************)
IsPrefix(s, t) == Len(s) <= Len(t) /\ \A i \in 1..Len(s) : s[i] = t[i]

\* The passes of the cycle so far follow the configuration, one at a time.
C8_OrderInv ==
    /\ IsPrefix(started, urls)
    /\ IsPrefix(done, started)
    /\ Len(started) = Len(done) + (IF InPass THEN 1 ELSE 0)
    /\ InPass => queue = started[Len(started)]
    /\ pc \in {"loop", "startup"} => qi = Len(done) + 1

\* C8: the order holds throughout, a cycle ends only when every configured
\* queue had its pass, and every configured queue's pass begins again and again.
C8_PollLoop ==
    /\ []C8_OrderInv
    /\ [][(started # <<>> /\ started' = <<>>) => (done = urls /\ started = urls)]_vars
    /\ \A i \in 1..Cardinality(Queues) :
          []<>(i <= Len(urls) => PassBegins(i, i))

C8_Witness ==
    /\ pc = "loop"
    /\ qi > Len(urls)
    /\ done = urls
    /\ Len(urls) = Cardinality(Queues)
    /\ \A q \in Queues : cache[q] # Absent

(***************************************************************************)
(* C11: for every raw schedule S, queue q and date d, extract_relevant     *)
(* returns a mapping with no date strictly before d and no entry for a day *)
(* whose eventDate does not parse, and with exactly one key for each       *)
(* distinct parseable today-or-future eventDate of S, mapped to that day's *)
(* interval list for q, reduced to the compared fields (empty when q is    *)
(* absent from the day's queues).  Of several days with one eventDate the  *)
(* last one gives the list.                                                *)
(***************************************************************************)
\* The days of the schedule argument of the call (None has none).
ArgDays == IF normargs.schedule.t = "list" THEN normargs.schedule.v ELSE <<>>

\* The days whose eventDate parses to the date of the call or a later one.
RelevantDays ==
    {i \in 1..Len(ArgDays) :
        Parseable(ArgDays[i].eventDate) /\ StrpTime(ArgDays[i].eventDate) >= normargs.today}

\* The last day of the schedule with the eventDate k.
LastWith(k) ==
    CHOOSE i \in RelevantDays :
        /\ ArgDays[i].eventDate = k
        /\ \A j \in RelevantDays : ArgDays[j].eventDate = k => j <= i

\* The list l is the interval list of the day for queue q, field by field.
IsIntervalListOf(l, day, q) ==
    IF q \notin DOMAIN day.queues THEN l = <<>>
    ELSE /\ Len(l) = Len(day.queues[q])
         /\ \A n \in 1..Len(l) :
               /\ DOMAIN l[n] = {"shutdownHours", "from", "to", "status"}
               /\ \A f \in DOMAIN l[n] : l[n][f] = day.queues[q][n][f]

C11_Normalizer ==
    normargs # NoArgs =>
        /\ ~normalized.raised
        /\ \A k \in DOMAIN normalized.dict : Parseable(k) /\ StrpTime(k) >= normargs.today
        /\ DOMAIN normalized.dict = {ArgDays[i].eventDate : i \in RelevantDays}
        /\ \A k \in DOMAIN normalized.dict :
              IsIntervalListOf(normalized.dict[k], ArgDays[LastWith(k)], normargs.queue)

C11_Witness ==
    /\ normargs # NoArgs
    /\ \E i \in 1..Len(ArgDays) : ~Parseable(ArgDays[i].eventDate)
    /\ \E i \in 1..Len(ArgDays) :
          Parseable(ArgDays[i].eventDate) /\ StrpTime(ArgDays[i].eventDate) < normargs.today
    /\ \E k \in DOMAIN normalized.dict : normalized.dict[k] # <<>>
    /\ Cardinality(RelevantDays) = 1

(***************************************************************************)
(* C12 (as stated): for every missing or malformed MONITOR_CONFIG value    *)
(* (absent, not valid JSON, or valid JSON whose records lack id, name or   *)
(* url) the process still starts, with an empty set of monitored queues,   *)
(* and the loop runs without processing any queue.                         *)
(***************************************************************************)
\* The value is missing or malformed.
Malformed(cfg) ==
    \/ ~cfg.given
    \/ ~cfg.parses
    \/ \E i \in 1..Len(cfg.items) : cfg.items[i].has # {"id", "name", "url"}

\* C12: with a missing or malformed value the process is running, monitors
\* no queue and never is in a pass.
C12_StartupConfig ==
    Malformed(config) =>
        /\ pc \in {"startup", "loop"}
        /\ urls = <<>>
        /\ started = <<>>

(***************************************************************************)
(* C13 (as stated): all date comparisons of one check_and_alert pass use   *)
(* the same as-of date; in particular a fetched schedule identical to the  *)
(* cached one never produces a notification, even when the wall clock      *)
(* advances during the pass.                                               *)
(***************************************************************************)
\* The pass fetched the schedule that the cache held when the pass began.
FetchedTheCached == PassEnded /\ FetchedOk /\ before = current

\* C13: a pass whose fetched schedule is the cached one sends nothing,
\* whatever dates the wall clock showed during the pass.
C13_SingleAsOfDate == FetchedTheCached => Sends = {}

(***************************************************************************)
(* C14 (as stated): in a pass whose fetch succeeds and whose cached        *)
(* snapshot has a day with an unparseable eventDate, the day is dropped    *)
(* and classification completes with one of the four outcomes, so the      *)
(* queue goes on sending notifications and updating its cache.             *)
(***************************************************************************)
\* The cached snapshot the pass began with has a day whose eventDate does
\* not parse.
CachedMalformedDate ==
    \E i \in 1..Len(BeforeDays) : ~Parseable(BeforeDays[i].eventDate)

\* C14: a pass that fetched a schedule and began with such a snapshot ends
\* with one of the four outcomes and without an exception.
C14_MalformedCachedDropped ==
    (PassEnded /\ FetchedOk /\ current.t = "list" /\ CachedMalformedDate
       /\ "save_failed" \notin Events)
    => (Classified /\ "except" \notin Events)

(***************************************************************************)
(* C15: when the fetch succeeds with a non-empty schedule whose normalized *)
(* mapping equals the normalized cached mapping, check_and_alert sends no  *)
(* notification and leaves the queue's cache entry exactly as it was, with *)
(* no write.                                                               *)
(***************************************************************************)
\* The pass neither sent a message nor wrote or tried to write the cache.
NoSendNoWrite ==
    /\ Sends = {}
    /\ Events \cap {"save", "save_failed"} = {}
    /\ cache[queue] = before

\* The pass saw one date, and as of that date the fetched schedule and the
\* cached snapshot normalize to the same mapping.
EqualNormalized ==
    /\ before # Corrupt
    /\ Cardinality(AsOfDates) = 1
    /\ \A d \in AsOfDates :
          Normalize(current, queue, d) = Normalize(JList(BeforeDays), queue, d)

\* C15: a pass with a non-empty fetched schedule and equal normalized
\* mappings sends nothing and writes nothing; that holds for the mappings the
\* pass compared and for the normalizations as of the date of the pass, and
\* unless the pass raised its outcome is Unchanged.
C15_UnchangedFrame ==
    (PassEnded /\ FetchedOk /\ current.t = "list" /\ Truthy(current)) =>
        /\ (Classified /\ current_relevant = last_relevant) =>
              (outcome = "unchanged" /\ NoSendNoWrite)
        /\ EqualNormalized =>
              /\ NoSendNoWrite
              /\ "except" \notin Events => outcome = "unchanged"

C15_Witness ==
    /\ PassEnded
    /\ outcome = "unchanged"
    /\ EqualNormalized
    /\ current_relevant # EmptyDict
    /\ Truthy(before)
    /\ before # current
    /\ NoSendNoWrite

(***************************************************************************)
(* C16 (as stated): every body that parsed as JSON is handed to the        *)
(* classification as it is; a 200 JSON response with an empty or absent    *)
(* schedule, JSON null included, is classified as an empty current         *)
(* schedule (Ignored or Cancelled) and is neither retried nor skipped.     *)
(***************************************************************************)
\* C16: after a response whose body parsed the pass has a current schedule,
\* does not sleep for a retry and is not skipped; when that schedule is
\* empty and nothing raises, the outcome is Ignored or Cancelled.
C16_ParsedBodyClassified ==
    /\ (InPass /\ parsed) =>
          /\ current # JNull
          /\ pc # "retry_sleep"
          /\ outcome # "skipped"
    /\ (PassEnded /\ parsed /\ ~Truthy(current) /\ "except" \notin Events) =>
          outcome \in {"ignored", "cancelled"}

(***************************************************************************)
(* C17: a check_and_alert pass for queue q reads and writes only the cache *)
(* entry of q; the cache entries of all other queues are unchanged by the  *)
(* pass, whatever its outcome.                                             *)
(***************************************************************************)
\* What the pass loaded is the entry its own queue had when the pass began.
C17_ReadsOwnEntry ==
    (InPass /\ "load" \in Events) => last = OrEmptyList(load_last(before))

\* C17: an entry changes only in the save step of a pass for its own queue,
\* and the snapshot a pass loads is its own queue's entry.
C17_CachePartition ==
    /\ [][\A q \in Queues : cache'[q] # cache[q] => (pc = "save" /\ q = queue)]_vars
    /\ []C17_ReadsOwnEntry

C17_Witness ==
    /\ PassEnded
    /\ "save" \in Events
    /\ Len(urls) = Cardinality(Queues)
    /\ qi = Len(urls)
    /\ Truthy(cache[urls[1]])
    /\ Truthy(cache[queue])
    /\ Truthy(last)
    /\ last # cache[urls[1]]

(***************************************************************************)
(* C18: in a pass with a successful fetch that sees a single date and      *)
(* reaches the classification, a notification (Cancelled or Changed) is    *)
(* sent if and only if the normalized current mapping differs from the     *)
(* normalized cached mapping; the Cancelled outcome occurs only when the   *)
(* mappings differ and the Ignored outcome only when both are empty.       *)
(***************************************************************************)
\* The pass had a successful fetch, saw one date and reached the if-chain.
SingleDatePass ==
    /\ PassEnded
    /\ FetchedOk
    /\ Classified
    /\ Cardinality(AsOfDates) = 1

C18_NotifyIffDiffer ==
    SingleDatePass =>
        \A d \in AsOfDates :
            LET cur == Normalize(current, queue, d)
                old == Normalize(JList(BeforeDays), queue, d)
            IN /\ (Sends # {}) <=> (cur # old)
               /\ Cardinality(Sends) <= 1
               /\ outcome = "cancelled" => (cur # old /\ Sends # {})
               /\ outcome = "ignored" => (cur = EmptyDict /\ old = EmptyDict)

C18_Witness ==
    /\ SingleDatePass
    /\ outcome = "cancelled"
    /\ Sends # {}
    /\ \E d \in AsOfDates :
          /\ Normalize(current, queue, d) = EmptyDict
          /\ Normalize(JList(BeforeDays), queue, d) # EmptyDict

(***************************************************************************)
(* C19: no duplicate notifications.  If two consecutive passes for the     *)
(* same queue both fetch the same raw schedule on the same as-of date and  *)
(* cache writes succeed, the second pass sends no notification; after a    *)
(* Cancelled notification every following pass that again fetches an      *)
(* empty schedule is Ignored, so one run of consecutive empty fetches      *)
(* produces at most one Cancelled notification.                            *)
(***************************************************************************)
\* The pass before this one, for the same queue.
Before == prev[queue]

\* This pass and the one before it fetched the same raw schedule, and both
\* saw one date, the same one; the write of the earlier pass did not fail.
SameFetchAgain ==
    /\ PassEnded
    /\ FetchedOk
    /\ Before.fetched = current
    /\ Cardinality(AsOfDates) = 1
    /\ Before.dates = AsOfDates
    /\ ~Before.failed

\* This pass and the one before it fetched an empty schedule, and the write
\* of the earlier pass did not fail.
EmptyFetchAgain ==
    /\ PassEnded
    /\ FetchedOk
    /\ ~Truthy(current)
    /\ Before.fetched # JNull
    /\ ~Truthy(Before.fetched)
    /\ ~Before.failed

\* C19: the second of two such passes sends nothing; a pass that follows an
\* Ignored or Cancelled pass and fetches an empty schedule again is Ignored,
\* so only the first pass of a run of empty fetches can send "cancelled".
C19_NoDuplicates ==
    /\ SameFetchAgain => Sends = {}
    /\ EmptyFetchAgain =>
          /\ Sends = {}
          /\ Before.outcome \in {"ignored", "cancelled"} => outcome = "ignored"

C19_Witness ==
    /\ SameFetchAgain
    /\ EmptyFetchAgain
    /\ Before.outcome = "cancelled"
    /\ outcome = "ignored"
    /\ "save" \in Events

(***************************************************************************)
(* C20 (as stated): in every pass that sends a notification the send       *)
(* happens before the cache write, at most one notification and at most    *)
(* one cache write occur per pass, and the value written is exactly the    *)
(* schedule fetched in that pass; a cache write that fails after the send  *)
(* leaves the old cache entry in place with the notification delivered.    *)
(***************************************************************************)
\* The save_current calls of the pass so far.
Writes == {i \in 1..Len(log) : log[i] \in {"save", "save_failed"}}

\* One message at most, one save_current call at most, the message first;
\* a completed write leaves the fetched schedule in the entry.
SendThenWrite ==
    /\ Cardinality(Sends) <= 1
    /\ Cardinality(Writes) <= 1
    /\ \A i \in Sends : \A j \in Writes : i < j
    /\ (PassEnded /\ Sends # {}) => Writes # {}
    /\ (InPass /\ "save" \in Events) => cache[queue] = current

\* C20 as stated: after a failed write the entry is the old one.
C20_Original ==
    /\ SendThenWrite
    /\ (InPass /\ Sends # {} /\ "save_failed" \in Events) => cache[queue] = before

(***************************************************************************)
(* C20 (amended): the same ordering and counts; a cache write that fails   *)
(* after the send leaves the notification delivered and the entry either   *)
(* as it was or unreadable (the file is truncated when it is opened for    *)
(* writing), never a third value.                                          *)
(***************************************************************************)
C20_NotifyThenPersist ==
    /\ SendThenWrite
    /\ (InPass /\ Sends # {} /\ "save_failed" \in Events) =>
          /\ cache[queue] \in {before, Corrupt}
          /\ PassEnded
          /\ "except" \in Events

C20_Witness ==
    /\ PassEnded
    /\ "send_changed" \in Events
    /\ "save_failed" \in Events
    /\ Truthy(before)
    /\ cache[queue] = Corrupt

====
